---- MODULE Spec2Model ----
(***************************************************************************)
(* A model of faceage.py: the batch driver that sends every image of a     *)
(* directory to the face detection API, flattens the returned face records *)
(* and writes them to a CSV file.                                          *)
(*                                                                         *)
(* Strings are TLA+ strings; a Python dict is a sequence of <<key, value>> *)
(* pairs with distinct keys, in insertion order; a Python list is a        *)
(* sequence.  An operator that models code which may raise returns a       *)
(* record whose field exc names the exception ("none" when it returns).    *)
(***************************************************************************)
EXTENDS Integers, Sequences, FiniteSets, TLC

VARIABLES
    cfgFile,     \* the configuration file named by --config, as found on disk
    imageDir,    \* the directory named by --image_dir, as found on disk
    outFile,     \* the path named by --output_file: [exists, lines]
    run,         \* number of the current invocation of the script
    pc,          \* position of the __main__ block
    exitCode,    \* exit status of the process, -1 while it runs
    exc,         \* the uncaught exception that ended the run, or "none"
    image_list,  \* process_image_directory: image_list
    idx,         \* process_image_directory: position of the for loop (1-based)
    output,      \* process_image_directory: output
    RESULTS,     \* __main__: RESULTS
    driver,      \* process_image_directory: not_called, running, returned, raised
    calls,       \* history: the calls of process_image made in this run
    events,      \* history: scan, request, sleep, open and write steps of this run
    outAtStart,  \* history: whether the output path existed when this run started
    prevEmpty    \* history: the previous run reached the write with no results

vars == <<cfgFile, imageDir, outFile, run, pc, exitCode, exc, image_list, idx,
          output, RESULTS, driver, calls, events, outAtStart, prevEmpty>>

-----------------------------------------------------------------------------
(* Bounds of the model *)

MaxEntries == 3
MaxRuns == 2

-----------------------------------------------------------------------------
(* Strings *)

CharAt(s, i) == SubSeq(s, i, i)

\* str.split(sep) for a one-character separator: the list of the pieces
RECURSIVE Split(_, _)
Split(s, sep) ==
    LET hits == {i \in 1..Len(s) : CharAt(s, i) = sep}
    IN  IF hits = {} THEN <<s>>
        ELSE LET i == CHOOSE j \in hits : \A k \in hits : j <= k
             IN  <<SubSeq(s, 1, i - 1)>> \o Split(SubSeq(s, i + 1, Len(s)), sep)

\* list[-1]
Last(l) == l[Len(l)]

LowerChar(c) ==
    CASE c = "A" -> "a" [] c = "B" -> "b" [] c = "C" -> "c" [] c = "D" -> "d"
      [] c = "E" -> "e" [] c = "F" -> "f" [] c = "G" -> "g" [] c = "H" -> "h"
      [] c = "I" -> "i" [] c = "J" -> "j" [] c = "K" -> "k" [] c = "L" -> "l"
      [] c = "M" -> "m" [] c = "N" -> "n" [] c = "O" -> "o" [] c = "P" -> "p"
      [] c = "Q" -> "q" [] c = "R" -> "r" [] c = "S" -> "s" [] c = "T" -> "t"
      [] c = "U" -> "u" [] c = "V" -> "v" [] c = "W" -> "w" [] c = "X" -> "x"
      [] c = "Y" -> "y" [] c = "Z" -> "z" [] OTHER -> c

\* str.lower()
RECURSIVE Lower(_)
Lower(s) == IF s = "" THEN "" ELSE LowerChar(CharAt(s, 1)) \o Lower(Tail(s))

\* os.path.join(directory, name), which os.scandir uses for entry.path
PathJoin(directory, name) ==
    IF directory = "" \/ CharAt(directory, Len(directory)) = "/"
    THEN directory \o name
    ELSE directory \o "/" \o name

-----------------------------------------------------------------------------
(* Python dicts as sequences of <<key, value>> pairs *)

Keys(d) == [i \in 1..Len(d) |-> d[i][1]]

KeySet(d) == {d[i][1] : i \in 1..Len(d)}

Has(d, k) == \E i \in 1..Len(d) : d[i][1] = k

\* d[k] for a key that is present
Get(d, k) == d[CHOOSE i \in 1..Len(d) : d[i][1] = k][2]

\* the dict without key k (what remains after d.pop(k))
Del(d, k) == SelectSeq(d, LAMBDA p : p[1] # k)

\* d[k] = v: a present key keeps its position, a new key goes last
SetItem(d, k, v) ==
    IF Has(d, k)
    THEN [i \in 1..Len(d) |-> IF d[i][1] = k THEN <<k, v>> ELSE d[i]]
    ELSE Append(d, <<k, v>>)

\* d.update(e)
RECURSIVE Update(_, _)
Update(d, e) ==
    IF e = <<>> THEN d
    ELSE Update(SetItem(d, e[1][1], e[1][2]), Tail(e))

-----------------------------------------------------------------------------
(* The environment: what the file system and the API can hand to the script *)

\* names a directory entry may have
EntryNames == {"a.jpg", "B.v2.JPeG", "c.txt", "png"}

Entries == [name : EntryNames, isFile : BOOLEAN]

\* the directory listings: up to MaxEntries entries with distinct names, in
\* the order os.scandir yields them
Listings ==
    {l \in UNION {[1..n -> Entries] : n \in 0..MaxEntries} :
        \A i, j \in 1..Len(l) : i # j => l[i].name # l[j].name}

DirPaths == {"imgs", "data/in/"}

\* face records as the API returns them for returnFaceAttributes =
\* age,gender,emotion
Face1 == << <<"faceId", "f1">>,
            <<"faceAttributes", << <<"age", "32">>, <<"gender", "male">>,
                <<"emotion", << <<"happiness", "0.9">>, <<"anger", "0.05">> >> >> >> >> >>

Face2 == << <<"faceId", "f2">>,
            <<"faceAttributes", << <<"emotion", << <<"anger", "0.1">> >> >>,
                <<"age", "40">> >> >> >>

Face3 == << <<"faceAttributes", << <<"age", "7">>, <<"gender", "female">>,
                <<"emotion", << <<"happiness", "0.2">>, <<"sadness", "0.8">> >> >> >> >>,
            <<"faceId", "f3">> >>

\* the JSON arrays a 2xx response may carry
Bodies == {<<>>, <<Face1>>, <<Face2>>, <<Face3, Face1>>}

\* what happens when one image is opened and posted
Outcomes ==
    [kind : {"gone", "denied", "conn_error", "http_error"}, body : {<<>>}]
    \cup [kind : {"ok"}, body : Bodies]

-----------------------------------------------------------------------------
(* process_image *)

\* the exception open(image_path, "rb") raises, "none" when the file opens
OpenError(o) ==
    CASE o.kind = "gone" -> "FileNotFoundError"
      [] o.kind = "denied" -> "PermissionError"
      [] OTHER -> "none"

\* the exception requests.post / raise_for_status raises, "none" on 2xx
RequestError(o) ==
    CASE o.kind = "conn_error" -> "ConnectionError"
      [] o.kind = "http_error" -> "HTTPError"
      [] OTHER -> "none"

\* except FileNotFoundError
CaughtInProcessImage(e) == e = "FileNotFoundError"

NoneResult == [exc |-> "none", isNone |-> TRUE, value |-> <<>>, requested |-> FALSE]

ProcessImage(image_path, o) ==
    IF OpenError(o) # "none"
    THEN IF CaughtInProcessImage(OpenError(o))
         THEN NoneResult
         ELSE [NoneResult EXCEPT !.exc = OpenError(o)]
    ELSE IF RequestError(o) # "none"
    THEN IF CaughtInProcessImage(RequestError(o))
         THEN [NoneResult EXCEPT !.requested = TRUE]
         ELSE [NoneResult EXCEPT !.exc = RequestError(o), !.requested = TRUE]
    ELSE IF o.body = <<>>
    THEN [NoneResult EXCEPT !.requested = TRUE]
    ELSE [exc |-> "none", isNone |-> FALSE, value |-> o.body[1], requested |-> TRUE]

-----------------------------------------------------------------------------
(* get_image_list *)

ALLOWED_TYPES == <<"jpg", "jpeg", "png", "gif", "bmp">>

\* entry.name.split(".")[-1]
Ext(name) == Last(Split(name, "."))

\* not (ext.lower() not in ALLOWED_TYPES)
IsAllowed(ext) == \E i \in 1..Len(ALLOWED_TYPES) : ALLOWED_TYPES[i] = Lower(ext)

\* the body of the scandir loop, over the entries from position i on
RECURSIVE ScanFrom(_, _, _, _)
ScanFrom(directory, entries, i, acc) ==
    IF i > Len(entries) THEN acc
    ELSE IF entries[i].isFile /\ IsAllowed(Ext(entries[i].name))
    THEN ScanFrom(directory, entries, i + 1,
                  Append(acc, PathJoin(directory, entries[i].name)))
    ELSE ScanFrom(directory, entries, i + 1, acc)

GetImageList(d) ==
    IF ~d.exists
    THEN [exc |-> "FileNotFoundError", list |-> <<>>]
    ELSE [exc |-> "none", list |-> ScanFrom(d.path, d.entries, 1, <<>>)]

-----------------------------------------------------------------------------
(* The flattening step of process_image_directory *)

\* the first piece of the path instead of the last
BasenameFirst(image_file) == Split(image_file, "/")[1]

\* image_file.split("/")[-1]
Basename(image_file) == Last(Split(image_file, "/"))

\* the prefix without its dash
PrefixedNoDash(emotion) ==
    [i \in 1..Len(emotion) |-> <<"emotion" \o emotion[i][1], emotion[i][2]>>]

\* {"emotion-" + k: v for k, v in emotion.items()}
Prefixed(emotion) ==
    [i \in 1..Len(emotion) |-> <<"emotion-" \o emotion[i][1], emotion[i][2]>>]

\* the flattening with row.pop("emotion", {})
FlattenRowPopDefault(row, face_id, image_file) ==
    [exc |-> "none",
     row |-> SetItem(SetItem(Update(Del(row, "emotion"),
                                    IF Has(row, "emotion")
                                    THEN Prefixed(Get(row, "emotion"))
                                    ELSE <<>>),
                             "faceId", face_id),
                     "file", Basename(image_file))]

\* lines 115-122 on row, with face_id and image_file given
FlattenRow(row, face_id, image_file) ==
    IF ~Has(row, "emotion")
    THEN [exc |-> "KeyError", row |-> <<>>]
    ELSE [exc |-> "none",
          row |-> SetItem(SetItem(Update(Del(row, "emotion"),
                                         Prefixed(Get(row, "emotion"))),
                                  "faceId", face_id),
                          "file", Basename(image_file))]

\* lines 109-122 on result
Flatten(result, image_file) ==
    IF ~Has(result, "faceId") \/ ~Has(result, "faceAttributes")
    THEN [exc |-> "KeyError", row |-> <<>>]
    ELSE FlattenRow(Get(result, "faceAttributes"), Get(result, "faceId"), image_file)

-----------------------------------------------------------------------------
(* csv.DictWriter with the default restval "" and extrasaction "raise" *)

SeqToSet(l) == {l[i] : i \in 1..Len(l)}

\* a writer made with extrasaction "ignore"
DictToListIgnoreExtras(fieldnames, rowdict) ==
    [exc |-> "none",
     fields |-> [i \in 1..Len(fieldnames) |->
                   IF Has(rowdict, fieldnames[i])
                   THEN Get(rowdict, fieldnames[i]) ELSE ""]]

\* DictWriter._dict_to_list
DictToList(fieldnames, rowdict) ==
    IF KeySet(rowdict) \ SeqToSet(fieldnames) # {}
    THEN [exc |-> "ValueError", fields |-> <<>>]
    ELSE [exc |-> "none",
          fields |-> [i \in 1..Len(fieldnames) |->
                        IF Has(rowdict, fieldnames[i])
                        THEN Get(rowdict, fieldnames[i]) ELSE ""]]

\* for result in RESULTS: writer.writerow(result), from position i on
RECURSIVE WriteRows(_, _, _, _)
WriteRows(fieldnames, rows, i, lines) ==
    IF i > Len(rows) THEN [exc |-> "none", lines |-> lines]
    ELSE LET r == DictToList(fieldnames, rows[i])
         IN  IF r.exc # "none" THEN [exc |-> r.exc, lines |-> lines]
             ELSE WriteRows(fieldnames, rows, i + 1, Append(lines, r.fields))

\* lines 233-238: the writer, the header and the rows
WriteCsvFile(results) ==
    IF results = <<>>
    THEN [exc |-> "IndexError", lines |-> <<>>]
    ELSE WriteRows(Keys(results[1]), results, 1, <<Keys(results[1])>>)

-----------------------------------------------------------------------------
(* The script *)

Init ==
    /\ cfgFile \in {"missing", "malformed", "nokeys", "ok"}
    /\ imageDir \in [exists : {FALSE}, path : {"nowhere"}, entries : {<<>>}]
                    \cup [exists : {TRUE}, path : DirPaths, entries : Listings]
    /\ outFile \in [exists : BOOLEAN, lines : {<<>>}]
    /\ run = 1
    /\ pc = "read_config"
    /\ exitCode = -1
    /\ exc = "none"
    /\ image_list = <<>>
    /\ idx = 1
    /\ output = <<>>
    /\ RESULTS = <<>>
    /\ driver = "not_called"
    /\ calls = <<>>
    /\ events = <<>>
    /\ outAtStart = outFile.exists
    /\ prevEmpty = FALSE

\* an uncaught exception e ends the process with a traceback and status 1
Die(e) ==
    /\ pc' = "done"
    /\ exc' = e
    /\ exitCode' = 1

\* CONFIG.read(ARGS.config): a file that is missing is skipped silently, one
\* that cannot be parsed raises
ReadConfig ==
    /\ pc = "read_config"
    /\ IF cfgFile = "malformed"
       THEN Die("ParsingError")
       ELSE /\ pc' = "check_output"
            /\ UNCHANGED <<exc, exitCode>>
    /\ UNCHANGED <<cfgFile, imageDir, outFile, run, image_list, idx, output,
                   RESULTS, driver, calls, events, outAtStart, prevEmpty>>

\* the existence check with the exit left out
CheckOutputFileNoExit ==
    /\ pc = "check_output"
    /\ pc' = "lookup_config"
    /\ UNCHANGED <<cfgFile, imageDir, outFile, run, exitCode, exc, image_list,
                   idx, output, RESULTS, driver, calls, events, outAtStart,
                   prevEmpty>>

\* if os.path.isfile(ARGS.output_file): sys.exit(1)
CheckOutputFile ==
    /\ pc = "check_output"
    /\ IF outFile.exists
       THEN Die("SystemExit")
       ELSE /\ pc' = "lookup_config"
            /\ UNCHANGED <<exc, exitCode>>
    /\ UNCHANGED <<cfgFile, imageDir, outFile, run, image_list, idx, output,
                   RESULTS, driver, calls, events, outAtStart, prevEmpty>>

\* CONFIG["Subscription"]["url"], CONFIG["Subscription"]["key"]: the arguments
\* of the call of process_image_directory
LookupConfig ==
    /\ pc = "lookup_config"
    /\ IF cfgFile # "ok"
       THEN Die("KeyError") /\ UNCHANGED driver
       ELSE /\ pc' = "get_image_list"
            /\ driver' = "running"
            /\ UNCHANGED <<exc, exitCode>>
    /\ UNCHANGED <<cfgFile, imageDir, outFile, run, image_list, idx, output,
                   RESULTS, calls, events, outAtStart, prevEmpty>>

\* process_image_directory, lines 91-93
EnterDirectory ==
    /\ pc = "get_image_list"
    /\ LET r == GetImageList(imageDir)
       IN  IF r.exc # "none"
           THEN /\ Die(r.exc)
                /\ driver' = "raised"
                /\ UNCHANGED <<image_list, events>>
           ELSE /\ image_list' = r.list
                /\ events' = Append(events, "scan")
                /\ pc' = "loop"
                /\ UNCHANGED <<exc, exitCode, driver>>
    /\ output' = <<>>
    /\ idx' = 1
    /\ UNCHANGED <<cfgFile, imageDir, outFile, run, RESULTS, calls, outAtStart,
                   prevEmpty>>

\* a handler that names the HTTP error alone
CaughtInDriverHttpOnly(e) == e = "HTTPError"

\* except requests.exceptions.RequestException
CaughtInDriver(e) == e \in {"ConnectionError", "HTTPError"}

\* if not result
Falsy(r) == r.isNone \/ r.value = <<>>

\* one iteration of the for loop of process_image_directory on image_file,
\* when opening and posting the image goes as o says: what the iteration
\* leaves behind
Iteration(image_file, o) ==
    LET r == ProcessImage(image_file, o)
        req == IF r.requested THEN <<"request">> ELSE <<>>
        skip == [exc |-> "none", rows |-> <<>>, events |-> req, result |-> r]
    IN  IF r.exc # "none"
        THEN IF CaughtInDriver(r.exc) THEN skip ELSE [skip EXCEPT !.exc = r.exc]
        ELSE IF Falsy(r) THEN skip
        ELSE LET f == Flatten(r.value, image_file)
             IN  IF f.exc # "none" THEN [skip EXCEPT !.exc = f.exc]
                 ELSE [skip EXCEPT !.rows = <<f.row>>,
                                   !.events = req \o <<"sleep">>]

\* process_image_directory, lines 95-127, for the next image of the list
ProcessNextImage ==
    /\ pc = "loop"
    /\ idx <= Len(image_list)
    /\ \E o \in Outcomes :
         LET it == Iteration(image_list[idx], o)
         IN  /\ calls' = Append(calls, [image_file |-> image_list[idx],
                                        outcome |-> o, result |-> it.result])
             /\ events' = events \o it.events
             /\ output' = output \o it.rows
             /\ IF it.exc # "none"
                THEN Die(it.exc) /\ driver' = "raised" /\ UNCHANGED idx
                ELSE /\ idx' = idx + 1
                     /\ UNCHANGED <<pc, exc, exitCode, driver>>
    /\ UNCHANGED <<cfgFile, imageDir, outFile, run, image_list, RESULTS,
                   outAtStart, prevEmpty>>

\* process_image_directory, line 129, and the assignment to RESULTS
ReturnOutput ==
    /\ pc = "loop"
    /\ idx > Len(image_list)
    /\ RESULTS' = output
    /\ driver' = "returned"
    /\ pc' = "open_output"
    /\ UNCHANGED <<cfgFile, imageDir, outFile, run, exitCode, exc, image_list,
                   idx, output, calls, events, outAtStart, prevEmpty>>

\* the field names taken from RESULTS[0] before the file is opened
OpenOutputAfterFieldnames ==
    /\ pc = "open_output"
    /\ IF RESULTS = <<>>
       THEN /\ Die("IndexError")
            /\ UNCHANGED <<outFile, events>>
       ELSE /\ outFile' = [exists |-> TRUE, lines |-> <<>>]
            /\ events' = Append(events, "open")
            /\ pc' = "write_csv"
            /\ UNCHANGED <<exitCode, exc>>
    /\ UNCHANGED <<cfgFile, imageDir, run, image_list, idx, output, RESULTS,
                   driver, calls, outAtStart, prevEmpty>>

\* with open(ARGS.output_file, "w") as csvfile: the path is created, or
\* truncated
OpenOutput ==
    /\ pc = "open_output"
    /\ outFile' = [exists |-> TRUE, lines |-> <<>>]
    /\ events' = Append(events, "open")
    /\ pc' = "write_csv"
    /\ UNCHANGED <<cfgFile, imageDir, run, exitCode, exc, image_list, idx,
                   output, RESULTS, driver, calls, outAtStart, prevEmpty>>

\* the body of the with statement, lines 233-238; the file is closed, and
\* what was written is flushed, also when the body raises
WriteOutput ==
    /\ pc = "write_csv"
    /\ LET w == WriteCsvFile(RESULTS)
       IN  /\ outFile' = [outFile EXCEPT !.lines = w.lines]
           /\ events' = IF w.lines = <<>> THEN events ELSE Append(events, "write")
           /\ IF w.exc # "none"
              THEN Die(w.exc)
              ELSE /\ pc' = "done"
                   /\ exitCode' = 0
                   /\ UNCHANGED exc
    /\ UNCHANGED <<cfgFile, imageDir, run, image_list, idx, output, RESULTS,
                   driver, calls, outAtStart, prevEmpty>>

\* the script is started again with the same arguments
StartRun ==
    /\ pc = "done"
    /\ run < MaxRuns
    /\ run' = run + 1
    /\ pc' = "read_config"
    /\ exitCode' = -1
    /\ exc' = "none"
    /\ image_list' = <<>>
    /\ idx' = 1
    /\ output' = <<>>
    /\ RESULTS' = <<>>
    /\ driver' = "not_called"
    /\ calls' = <<>>
    /\ events' = <<>>
    /\ outAtStart' = outFile.exists
    /\ prevEmpty' = (driver = "returned" /\ RESULTS = <<>>)
    /\ UNCHANGED <<cfgFile, imageDir, outFile>>

Next ==
    \/ ReadConfig
    \/ CheckOutputFile
    \/ LookupConfig
    \/ EnterDirectory
    \/ ProcessNextImage
    \/ ReturnOutput
    \/ OpenOutput
    \/ WriteOutput
    \/ StartRun

Spec == Init /\ [][Next]_vars

-----------------------------------------------------------------------------
(* What the properties below speak of *)

\* the run has enumerated the image list
Enumerated == \E i \in 1..Len(events) : events[i] = "scan"

\* the calls of process_image that returned a face record
FaceCalls ==
    SelectSeq(calls, LAMBDA c : c.result.exc = "none" /\ ~c.result.isNone)

\* the name of the directory entry whose path is image_file
NameOf(image_file) ==
    CHOOSE n \in {imageDir.entries[i].name : i \in 1..Len(imageDir.entries)} :
        PathJoin(imageDir.path, n) = image_file

\* the run is past the writing step, having had results to write
WroteResults == pc = "done" /\ driver = "returned" /\ RESULTS # <<>>

\* the CSV fields of record row under the header: the value of each header
\* key, empty where the record has none
FieldsUnder(header, row) ==
    [j \in 1..Len(header) |->
        IF \E p \in 1..Len(row) : row[p][1] = header[j]
        THEN row[CHOOSE p \in 1..Len(row) : row[p][1] = header[j]][2]
        ELSE ""]

\* the positions of the records that have a key the header lacks
ExtraKeyed(results) ==
    {i \in 1..Len(results) :
        \E p \in 1..Len(results[i]) :
            \A j \in 1..Len(results[1]) : results[1][j][1] # results[i][p][1]}

-----------------------------------------------------------------------------
(* C1 *)

\* every call so far ended in a face, an empty array or a request error
OnlyApiOutcomes ==
    \A i \in 1..Len(calls) :
        calls[i].outcome.kind \in {"ok", "http_error", "conn_error"}

\* C1: when every image gets a face, an empty response or a request error,
\* process_image is called on the images of the list once each and in list
\* order, the loop is never left early, and the function returns after the
\* last image.
C1_EveryImageOnceInOrder ==
    (Enumerated /\ OnlyApiOutcomes) =>
        /\ driver \in {"running", "returned"}
        /\ Len(calls) <= Len(image_list)
        /\ \A i \in 1..Len(calls) : calls[i].image_file = image_list[i]
        /\ driver = "running" => (pc = "loop" /\ Len(calls) = idx - 1)
        /\ driver = "returned" => Len(calls) = Len(image_list)

C1_Witness ==
    /\ driver = "returned"
    /\ Len(calls) = 3
    /\ calls[1].outcome.kind = "http_error"
    /\ calls[2].outcome = [kind |-> "ok", body |-> <<>>]
    /\ calls[3].outcome.kind = "ok" /\ calls[3].outcome.body # <<>>

-----------------------------------------------------------------------------
(* C2 *)

\* C2: an image that cannot be opened, whatever the reason, makes
\* process_image return no result, and the batch goes on.
C2_OpenFailureIsSkipped ==
    \A i \in 1..Len(calls) :
        calls[i].outcome.kind \in {"gone", "denied"} =>
            /\ calls[i].result.exc = "none"
            /\ calls[i].result.isNone
            /\ driver # "raised"

-----------------------------------------------------------------------------
(* C3 *)

\* C3: a run that finds the output path existing does nothing (no scan, no
\* request, no sleep, no write) and exits with status 1, whatever the
\* configuration file and the image directory are.
C3_ExistingOutputStopsTheRun ==
    outAtStart =>
        /\ events = <<>>
        /\ calls = <<>>
        /\ driver = "not_called"
        /\ pc \in {"read_config", "check_output", "done"}
        /\ pc = "done" => exitCode = 1

C3_Witness ==
    /\ run = 1
    /\ outAtStart
    /\ cfgFile = "missing"
    /\ imageDir.exists /\ Len(imageDir.entries) > 0
    /\ pc = "done"
    /\ exc = "SystemExit"

-----------------------------------------------------------------------------
(* C4 *)

\* C4: the rows collected are one per call of process_image that returned a
\* face record, in the order of those calls, each row naming the file and
\* the face of its call; the list returned is the rows collected.
C4_OneRowPerFace ==
    /\ Len(output) = Len(FaceCalls)
    /\ \A i \in 1..Len(output) :
         /\ Has(output[i], "file")
         /\ Get(output[i], "file") = NameOf(FaceCalls[i].image_file)
         /\ Get(output[i], "faceId") = Get(FaceCalls[i].result.value, "faceId")
    /\ driver = "returned" => RESULTS = output

C4_Witness ==
    /\ driver = "returned"
    /\ imageDir.path = "data/in/"
    /\ Len(calls) = 3
    /\ Len(RESULTS) = 2
    /\ calls[2].result.isNone
    /\ Get(RESULTS[1], "file") = "B.v2.JPeG"
    /\ Get(RESULTS[2], "file") = "png"

-----------------------------------------------------------------------------
(* C5 *)

\* C5 as stated: whenever there are results, the write completes and the file
\* holds the header of the first record and one line per record, with empty
\* fields for missing keys and the values of extra keys dropped.
C5_WriteAlwaysCompletes ==
    WroteResults =>
        /\ exc = "none"
        /\ exitCode = 0
        /\ outFile.lines =
             <<Keys(RESULTS[1])>> \o
             [i \in 1..Len(RESULTS) |-> FieldsUnder(Keys(RESULTS[1]), RESULTS[i])]

\* C5 amended: the file holds the header of the first record and one line
\* per record, with empty fields for missing keys, up to the first record
\* that has a key the header lacks; with no such record the write completes,
\* otherwise it ends there with a ValueError and exit status 1.
C5_WriteStopsAtExtraKey ==
    WroteResults =>
        LET bad == ExtraKeyed(RESULTS)
            n == IF bad = {} THEN Len(RESULTS)
                 ELSE (CHOOSE i \in bad : \A j \in bad : i <= j) - 1
        IN  /\ outFile.lines =
                 <<Keys(RESULTS[1])>> \o
                 [i \in 1..n |-> FieldsUnder(Keys(RESULTS[1]), RESULTS[i])]
            /\ bad = {} => (exc = "none" /\ exitCode = 0)
            /\ bad # {} => (exc = "ValueError" /\ exitCode = 1)

C5_Witness ==
    /\ WroteResults
    /\ exc = "ValueError"
    /\ Len(RESULTS) = 3
    /\ Len(outFile.lines) = 3
    /\ \E j \in 1..Len(outFile.lines[3]) : outFile.lines[3][j] = ""

-----------------------------------------------------------------------------
(* C6 *)

\* the extension of a file name: what follows its last dot, for a name that
\* has a dot
HasExtension(name) == \E i \in 1..Len(name) : CharAt(name, i) = "."

\* C6: the list holds the paths of the entries that are regular files with an
\* allowed extension, in scan order; an entry with no extension is absent.
C6_OnlyAllowedExtensions ==
    Enumerated =>
        image_list =
            LET keep == SelectSeq(imageDir.entries,
                            LAMBDA e : /\ e.isFile
                                       /\ HasExtension(e.name)
                                       /\ IsAllowed(Ext(e.name)))
            IN  [i \in 1..Len(keep) |-> PathJoin(imageDir.path, keep[i].name)]

-----------------------------------------------------------------------------
(* C7 *)

\* C7: between two API requests of a run there is a sleep.
C7_SleepBetweenRequests ==
    \A i, j \in 1..Len(events) :
        (i < j /\ events[i] = "request" /\ events[j] = "request") =>
            \E k \in (i + 1)..(j - 1) : events[k] = "sleep"

-----------------------------------------------------------------------------
(* C8 *)

\* C8 as stated: flattening a row that flattening produced raises nothing and
\* gives the row back.
C8_FlattenIdempotent ==
    \A i \in 1..Len(output) :
        LET f == Flatten(output[i], Get(output[i], "file"))
        IN  f.exc = "none" /\ f.row = output[i]

\* C8 amended: flattening a row that flattening produced raises KeyError,
\* whether the row is taken as the API result (lines 109-122) or as the
\* attribute mapping (lines 115-122): the row has no "faceAttributes" and no
\* "emotion" key.
C8_FlattenTwiceRaises ==
    \A i \in 1..Len(output) :
        /\ Flatten(output[i], Get(output[i], "file")).exc = "KeyError"
        /\ FlattenRow(output[i], Get(output[i], "faceId"),
                      Get(output[i], "file")).exc = "KeyError"

C8_Witness ==
    /\ Len(output) = 2
    /\ ~Has(output[1], "emotion")
    /\ Has(output[2], "emotion-sadness")

-----------------------------------------------------------------------------
(* C9 *)

\* C9: the row of a face record has no "emotion" key, has "emotion-" + k with
\* value v for every pair of the emotion mapping, the faceId of the record,
\* the name of the image as "file", every other attribute with its value,
\* and no further key.
C9_FlattenedRow ==
    \A i \in 1..Len(FaceCalls) :
        i <= Len(output) =>
            LET result == FaceCalls[i].result.value
                attrs == Get(result, "faceAttributes")
                emotion == Get(attrs, "emotion")
                row == output[i]
            IN  /\ ~Has(row, "emotion")
                /\ \A j \in 1..Len(emotion) :
                     /\ Has(row, "emotion-" \o emotion[j][1])
                     /\ Get(row, "emotion-" \o emotion[j][1]) = emotion[j][2]
                /\ Has(row, "faceId") /\ Get(row, "faceId") = Get(result, "faceId")
                /\ Has(row, "file")
                /\ Get(row, "file") = NameOf(FaceCalls[i].image_file)
                /\ \A k \in KeySet(attrs) \ {"emotion"} :
                     Has(row, k) /\ Get(row, k) = Get(attrs, k)
                /\ KeySet(row) =
                     (KeySet(attrs) \ {"emotion"})
                     \cup {"emotion-" \o emotion[j][1] : j \in 1..Len(emotion)}
                     \cup {"faceId", "file"}
                /\ Cardinality(KeySet(row)) = Len(row)

C9_Witness ==
    /\ driver = "returned"
    /\ Len(RESULTS) >= 1
    /\ Keys(RESULTS[1]) = <<"age", "gender", "emotion-happiness",
                            "emotion-anger", "faceId", "file">>
    /\ Get(RESULTS[1], "emotion-anger") = "0.05"

-----------------------------------------------------------------------------
(* C10 *)

\* C10: a run that reaches the write with no results dies of an IndexError
\* with the output path created and empty; the run after it finds the path,
\* does nothing and exits with status 1.
C10_EmptyRunBlocksTheNext ==
    /\ (pc = "done" /\ driver = "returned" /\ RESULTS = <<>>) =>
         /\ exc = "IndexError"
         /\ exitCode = 1
         /\ outFile = [exists |-> TRUE, lines |-> <<>>]
    /\ exc = "IndexError" => outFile.exists
    /\ prevEmpty =>
         /\ outAtStart
         /\ events = <<>>
         /\ calls = <<>>
         /\ pc = "done" => (exitCode = 1 /\ exc = "SystemExit")

C10_Witness ==
    /\ run = 2
    /\ prevEmpty
    /\ pc = "done"
    /\ exc = "SystemExit"
    /\ outFile.lines = <<>>

====
